---------------------------- MODULE Spec2Model ----------------------------
(***************************************************************************)
(* LumberTrackAI: the shift ledger of src/App.tsx and the views that drive *)
(* it (BoardInput, ProductGrid, AnalysisView, CartEditModal, HistoryView,  *)
(* EmployeeInputView, SettingsView), with the persistence collaborator of  *)
(* services/sheetService and the stats calculator of geminiService.        *)
(*                                                                         *)
(* One action per UI handler.  A handler that awaits the collaborator is   *)
(* split at the await: the first action captures the closure of the render *)
(* in which the button was pressed, the second runs the continuation with  *)
(* that closure.  React state of a view lives as long as the view stays    *)
(* mounted and starts again from its useState defaults on the next mount.  *)
(***************************************************************************)
EXTENDS Integers, Sequences, FiniteSets, TLC

VARIABLES
    user,            \* App.user: the role of the logged-in user, "None" for null
    settings,        \* App.settings
    step,            \* App.step
    history,         \* App.history
    board,           \* App.board
    cart,            \* App.cart
    isAnalyzing,     \* App.isAnalyzing
    analysisResult,  \* App.analysisResult
    now,             \* the last value Date.now() returned
    isSaving,        \* AnalysisView.isSaving
    isSaved,         \* AnalysisView.isSaved
    isEditModalOpen, \* AnalysisView.isEditModalOpen
    empIsSaving,     \* EmployeeInputView.isSaving
    editingEntry,    \* HistoryView.editingEntry
    isUpdating,      \* HistoryView.isUpdating
    reviewing,       \* the closure of a handleReview awaiting analyzeYield
    pending,         \* closures of handleSave calls awaiting saveToGoogleSheet
    pendingEdits,    \* closures of handleSaveEdit calls awaiting the collaborator
    syncResult,      \* what the last saveToGoogleSheet call resolved to, as text
    events,          \* how many handlers have run
    lastCall         \* the handler applied last with its arguments and the state
                     \* it was applied to (function-level specifications only)

vars == <<user, settings, step, history, board, cart, isAnalyzing,
          analysisResult, now, isSaving, isSaved, isEditModalOpen,
          empIsSaving, editingEntry, isUpdating, reviewing, pending,
          pendingEdits, syncResult, events, lastCall>>

-----------------------------------------------------------------------------
(* Bounds of the model *)

\* largest quantity of one product the model lets a cart hold
MaxQty == 2
\* number of Date.now() identifiers the model hands out
MaxClock == 3
\* largest number of saveToGoogleSheet calls in flight at once
MaxPending == 2
\* number of handler runs the model follows
MaxEvents == 12
\* largest number of handleSaveEdit calls in flight at once
MaxPendingEdits == 1

\* number of boards whose saves SpecHistory follows
MaxBoards == 3
\* number of completed saves SpecHistory follows
MaxSaves == 4
\* largest quantity of one product a cart of SpecCart holds
MaxCartQty == 4
\* largest magnitude of a delta handed to the cart updater in SpecCart
MaxDelta == 3

-----------------------------------------------------------------------------
(* Data *)

\* no handler recorded
NoCall == [name |-> "none"]

\* JavaScript null
NULL == [null |-> TRUE]

\* the roles App.tsx branches on: 'Сотрудник', 'Власник', anything else
Roles == {"Employee", "Owner", "Admin"}

Steps == {"auth", "input", "grid", "analysis", "settings", "history",
          "employee", "ownerMain", "references", "dashboards"}

\* the first two entries of MOCK_PRODUCTS
MOCK_PRODUCTS ==
    [p1 |-> [id |-> "p1", price |-> 150,
             dimensions |-> [length |-> 800, width |-> 60, thickness |-> 40]],
     p2 |-> [id |-> "p2", price |-> 120,
             dimensions |-> [length |-> 600, width |-> 50, thickness |-> 35]]]

ProductIds == DOMAIN MOCK_PRODUCTS

DEFAULT_SETTINGS ==
    [minYield |-> 10, maxYield |-> 98, isYieldControlEnabled |-> FALSE,
     googleSheetUrl |-> ""]

\* the webhook URLs a user can type: none, or one
Urls == {"", "https://hook"}

\* values typed into the min/max yield inputs of SettingsView
MinYields == {10}
MaxYields == {98, 20}

\* values typed into the dimension inputs, after parseInt(value, 10)
Lengths == {0, 2000}
Widths == {-150, 150}
Thicknesses == {0, 50}

\* values typed into the batch input, as sequences of characters
BatchNumbers == {<<>>, <<" ">>, <<"7">>}

-----------------------------------------------------------------------------
(* Pure helpers *)

RECURSIVE SumSeq(_)
\* Array.prototype.reduce((a, x) => a + x, 0) over a sequence of numbers
SumSeq(s) == IF s = <<>> THEN 0 ELSE Head(s) + SumSeq(Tail(s))

\* items.map(f) for a sequence
MapSeq(s, F(_)) == [i \in DOMAIN s |-> F(s[i])]

\* the volume in m3 of a volume in mm3: x / 1000000000, kept as a fraction
M3(mm3) == [num |-> mm3, den |-> 1000000000]

\* A positive double: the 53 bits of its significand, first bit 1, and the
\* power of two that the first bit stands for
\*     value = SUM over i of bits[i] * 2^(exp - i + 1)

\* d <= n < 2 * d reached by doubling one of the two, and the power of two
\* by which n / d was divided on the way
RECURSIVE Normalised(_, _, _)
Normalised(n, d, exp) ==
    IF n < d THEN Normalised(2 * n, d, exp - 1)
    ELSE IF n >= 2 * d THEN Normalised(n, 2 * d, exp + 1)
    ELSE [n |-> n, d |-> d, exp |-> exp]

\* the four bits that write a number below 16
FourBits(q) == <<(q \div 8) % 2, (q \div 4) % 2, (q \div 2) % 2, q % 2>>

\* the next 4 * k bits of the quotient r / d, r < d < 2^27, after the bits
\* done, and the rest that is left: long division, four bits at a step
RECURSIVE LongDivision(_, _, _, _)
LongDivision(r, d, k, done) ==
    IF k = 0 \/ Len(done) < 0 THEN [bits |-> done, rest |-> r]
    ELSE LongDivision((16 * r) % d, d, k - 1,
                      done \o FourBits((16 * r) \div d))

\* the sum of two bit strings of one length, one bit longer: a carry enters
\* a place when a place to its right makes one and the places between pass
\* it on
AddBits(a, b) ==
    LET n == Len(a)
        carryInto(i) ==
            \E j \in (i + 1)..n :
                /\ a[j] + b[j] = 2
                /\ \A k \in (i + 1)..(j - 1) : a[k] + b[k] = 1
    IN  [i \in 1..(n + 1) |->
            IF i = 1 THEN (IF carryInto(0) THEN 1 ELSE 0)
            ELSE (a[i - 1] + b[i - 1]
                    + (IF carryInto(i - 1) THEN 1 ELSE 0)) % 2]

\* a bit string without its leading zeros
RECURSIVE StripZeros(_)
StripZeros(a) == IF a # <<>> /\ Head(a) = 0 THEN StripZeros(Tail(a)) ELSE a

\* the number that a bit string of at most 31 bits writes
RECURSIVE BitsValue(_)
BitsValue(a) ==
    IF a = <<>> THEN 0
    ELSE 2 * BitsValue(SubSeq(a, 1, Len(a) - 1)) + a[Len(a)]

\* k zeros, k at most 64
Zeros(k) ==
    SubSeq(<<0, 0, 0, 0, 0, 0, 0, 0, 0, 0, 0, 0, 0, 0, 0, 0,
             0, 0, 0, 0, 0, 0, 0, 0, 0, 0, 0, 0, 0, 0, 0, 0,
             0, 0, 0, 0, 0, 0, 0, 0, 0, 0, 0, 0, 0, 0, 0, 0,
             0, 0, 0, 0, 0, 0, 0, 0, 0, 0, 0, 0, 0, 0, 0, 0>>, 1, k)

\* IEEE 754 round to nearest, ties to even: the double nearest to the number
\* whose leading bits are a (first bit 1, weight 2^exp), when bits beyond
\* the 53rd are given by a itself and sticky tells that more follow
RoundToDouble(a, sticky, exp) ==
    LET padded == a \o Zeros(54 - Len(a))
        kept == SubSeq(padded, 1, 53)
        guard == padded[54]
        more == sticky \/ \E i \in 55..Len(padded) : padded[i] = 1
        up == guard = 1 /\ (more \/ kept[53] = 1)
        raised == AddBits(kept, Zeros(52) \o <<1>>)
    IN  IF ~up THEN [bits |-> kept, exp |-> exp]
        ELSE IF raised[1] = 1
        THEN [bits |-> SubSeq(raised, 1, 53), exp |-> exp + 1]
        ELSE [bits |-> Tail(raised), exp |-> exp]

\* the double p / b of two positive integers below 2^30
DoubleDivide(p, b) ==
    LET nz == Normalised(p, b, 0)
        q == LongDivision(nz.n - nz.d, nz.d, 14, <<>>)
    IN  RoundToDouble(<<1>> \o q.bits, q.rest # 0, nz.exp)

\* the double x * 100: the exact product x * 64 + x * 32 + x * 4, rounded
DoubleTimes100(x) ==
    LET times64 == x.bits \o Zeros(6)
        times32 == <<0>> \o x.bits \o Zeros(5)
        times4 == Zeros(4) \o x.bits \o Zeros(2)
        first == AddBits(times64, times32)
        product == StripZeros(AddBits(first, <<0>> \o times4))
    IN  RoundToDouble(product, FALSE, x.exp - 52 + Len(product) - 1)

\* Math.round(x) of a positive double below 2^31: floor(x + 0.5)
MathRound(x) ==
    IF x.exp < -1 THEN 0
    ELSE BitsValue(SubSeq(x.bits, 1, x.exp + 1))
            + (IF x.exp + 2 <= 53 THEN x.bits[x.exp + 2] ELSE 0)

\* Math.round((p / b) * 100) in the double arithmetic of JavaScript, p > 0
DoubleRoundPercent(p, b) == MathRound(DoubleTimes100(DoubleDivide(p, b)))

\* 100 * p / b digit by digit, so that no intermediate value leaves the
\* 32-bit integers of the checker (b below 2^27): its whole part and the
\* rest of the division
PercentDigits(p, b) ==
    LET whole == p \div b
        tenths == (10 * (p % b)) \div b
        afterTenths == (10 * (p % b)) % b
        hundredths == (10 * afterTenths) \div b
    IN  [floor |-> 100 * whole + 10 * tenths + hundredths,
         rest |-> (10 * afterTenths) % b]

\* Math.round((p / b) * 100) for integers p >= 0 and b > 0.  The double
\* (p / b) * 100 is within 100 * p / b * 2^-51 of the exact quotient, and an
\* exact quotient that does not end in .5 is at least 1 / (2 * b) away from
\* the next one that does, which is more as long as 200 * p < 2^51: only an
\* exact tie is decided by the rounding errors of the doubles.
MathRoundPercent(p, b) ==
    LET digits == PercentDigits(p, b)
    IN  IF 2 * digits.rest = b THEN DoubleRoundPercent(p, b)
        ELSE digits.floor + (IF 2 * digits.rest > b THEN 1 ELSE 0)

\* String.prototype.trim on a sequence of characters
RECURSIVE TrimLeft(_)
TrimLeft(s) == IF s # <<>> /\ Head(s) = " " THEN TrimLeft(Tail(s)) ELSE s

RECURSIVE TrimRight(_)
TrimRight(s) ==
    IF s # <<>> /\ s[Len(s)] = " " THEN TrimRight(SubSeq(s, 1, Len(s) - 1)) ELSE s

Trim(s) == TrimRight(TrimLeft(s))

\* cart.reduce((acc, item) => acc + item.quantity, 0)
totalItems(items) == SumSeq(MapSeq(items, LAMBDA it : it.quantity))

\* calculateStats that prices one piece of every line of the cart
calculateStats_perLine(b, items) ==
    LET boardVolumeMm3 ==
            IF b # NULL THEN b.width * b.thickness * b.length ELSE 0
        productsVolumeMm3 ==
            SumSeq(MapSeq(items,
                LAMBDA it :
                    LET d == MOCK_PRODUCTS[it.product].dimensions
                    IN  (d.length * d.width * d.thickness) * it.quantity))
    IN  [earnings |-> SumSeq(MapSeq(items,
                        LAMBDA it : MOCK_PRODUCTS[it.product].price)),
         yieldPercentage |->
            IF boardVolumeMm3 > 0
            THEN MathRoundPercent(productsVolumeMm3, boardVolumeMm3)
            ELSE 0,
         boardVolumeM3 |-> M3(boardVolumeMm3),
         productsVolumeM3 |-> M3(productsVolumeMm3)]

\* calculateStats without the guard of the division: a board without a volume
\* counts as used up
calculateStats_unguarded(b, items) ==
    LET boardVolumeMm3 ==
            IF b # NULL THEN b.width * b.thickness * b.length ELSE 0
        productsVolumeMm3 ==
            SumSeq(MapSeq(items,
                LAMBDA it :
                    LET d == MOCK_PRODUCTS[it.product].dimensions
                    IN  (d.length * d.width * d.thickness) * it.quantity))
    IN  [earnings |-> SumSeq(MapSeq(items,
                        LAMBDA it : MOCK_PRODUCTS[it.product].price
                                        * it.quantity)),
         yieldPercentage |->
            IF boardVolumeMm3 > 0
            THEN MathRoundPercent(productsVolumeMm3, boardVolumeMm3)
            ELSE 100,
         boardVolumeM3 |-> M3(boardVolumeMm3),
         productsVolumeM3 |-> M3(productsVolumeMm3)]

\* geminiService.calculateStats
calculateStats(b, items) ==
    LET totalEarnings ==
            SumSeq(MapSeq(items,
                LAMBDA it : MOCK_PRODUCTS[it.product].price * it.quantity))
        boardVolumeMm3 ==
            IF b # NULL THEN b.width * b.thickness * b.length ELSE 0
        productsVolumeMm3 ==
            SumSeq(MapSeq(items,
                LAMBDA it :
                    LET d == MOCK_PRODUCTS[it.product].dimensions
                    IN  (d.length * d.width * d.thickness) * it.quantity))
        yieldPercentage ==
            IF boardVolumeMm3 > 0
            THEN MathRoundPercent(productsVolumeMm3, boardVolumeMm3)
            ELSE 0
    IN  [earnings |-> totalEarnings,
         yieldPercentage |-> yieldPercentage,
         boardVolumeM3 |-> M3(boardVolumeMm3),
         productsVolumeM3 |-> M3(productsVolumeMm3)]

\* geminiService.analyzeYield: the stats of calculateStats plus commentary
\* (message, motivationalQuote), which no handler reads. A failure of the AI
\* call is caught inside and answered with the stats and a stock commentary.
analyzeYield(b, items) == calculateStats(b, items)

\* geminiService.analyzeYield throws instead of returning: the prompt reads
\* board.length outside the try, which is reached with items and AI enabled
analyzeYieldThrows(b, items, isAiEnabled) ==
    /\ items # <<>>
    /\ isAiEnabled
    /\ b = NULL

\* prev.find(item => item.product.id === product.id) !== undefined
InCart(items, p) == \E i \in DOMAIN items : items[i].product = p

\* the quantity of product p in the cart, 0 when absent (getQuantity)
getQuantity(items, p) ==
    IF InCart(items, p)
    THEN (CHOOSE it \in {items[i] : i \in DOMAIN items} : it.product = p).quantity
    ELSE 0

\* applyDelta that adds a line for every plus instead of merging
applyDelta_appends(prev, p, delta) ==
    IF delta > 0 THEN Append(prev, [product |-> p, quantity |-> 1])
    ELSE IF InCart(prev, p)
    THEN LET newQty == getQuantity(prev, p) + delta
         IN  IF newQty <= 0
             THEN SelectSeq(prev, LAMBDA it : it.product # p)
             ELSE MapSeq(prev, LAMBDA it :
                     IF it.product = p
                     THEN [it EXCEPT !.quantity = newQty] ELSE it)
    ELSE prev

\* applyDelta that removes a line only below zero
applyDelta_keepsZero(prev, p, delta) ==
    IF InCart(prev, p)
    THEN LET newQty == getQuantity(prev, p) + delta
         IN  IF newQty < 0
             THEN SelectSeq(prev, LAMBDA it : it.product # p)
             ELSE MapSeq(prev, LAMBDA it :
                     IF it.product = p
                     THEN [it EXCEPT !.quantity = newQty] ELSE it)
    ELSE IF delta > 0
         THEN Append(prev, [product |-> p, quantity |-> 1])
         ELSE prev

\* applyDelta that gives a new line the quantity delta
applyDelta_insertsDelta(prev, p, delta) ==
    IF InCart(prev, p)
    THEN LET newQty == getQuantity(prev, p) + delta
         IN  IF newQty <= 0
             THEN SelectSeq(prev, LAMBDA it : it.product # p)
             ELSE MapSeq(prev, LAMBDA it :
                     IF it.product = p
                     THEN [it EXCEPT !.quantity = newQty] ELSE it)
    ELSE IF delta > 0
         THEN Append(prev, [product |-> p, quantity |-> delta])
         ELSE prev

\* applyDelta that adds a line for a delta of zero as well
applyDelta_insertsOnZero(prev, p, delta) ==
    IF InCart(prev, p)
    THEN LET newQty == getQuantity(prev, p) + delta
         IN  IF newQty <= 0
             THEN SelectSeq(prev, LAMBDA it : it.product # p)
             ELSE MapSeq(prev, LAMBDA it :
                     IF it.product = p
                     THEN [it EXCEPT !.quantity = newQty] ELSE it)
    ELSE IF delta >= 0
         THEN Append(prev, [product |-> p, quantity |-> 1])
         ELSE prev

\* applyDelta that empties the cart when a quantity reaches zero
applyDelta_clearsAtZero(prev, p, delta) ==
    IF InCart(prev, p)
    THEN LET newQty == getQuantity(prev, p) + delta
         IN  IF newQty <= 0
             THEN <<>>
             ELSE MapSeq(prev, LAMBDA it :
                     IF it.product = p
                     THEN [it EXCEPT !.quantity = newQty] ELSE it)
    ELSE IF delta > 0
         THEN Append(prev, [product |-> p, quantity |-> 1])
         ELSE prev

\* the updater of handleUpdateCart: the new cart for (product, delta)
applyDelta(prev, p, delta) ==
    IF InCart(prev, p)
    THEN LET newQty == getQuantity(prev, p) + delta
         IN  IF newQty <= 0
             THEN SelectSeq(prev, LAMBDA it : it.product # p)
             ELSE MapSeq(prev, LAMBDA it :
                     IF it.product = p
                     THEN [it EXCEPT !.quantity = newQty] ELSE it)
    ELSE IF delta > 0
         THEN Append(prev, [product |-> p, quantity |-> 1])
         ELSE prev

\* the updater of handleRemoveItem
removeItem(prev, p) == SelectSeq(prev, LAMBDA it : it.product # p)


-----------------------------------------------------------------------------
(* What App renders *)

\* App renders only the loader while isAnalyzing
AuthShown == ~isAnalyzing /\ step = "auth"
InputShown == ~isAnalyzing /\ step = "input"
GridShown == ~isAnalyzing /\ step = "grid"
AnalysisShown ==
    ~isAnalyzing /\ step = "analysis" /\ analysisResult # NULL /\ board # NULL
SettingsShown == ~isAnalyzing /\ step = "settings"
HistoryShown == ~isAnalyzing /\ step = "history"
EmployeeShown == ~isAnalyzing /\ step = "employee"
OwnerMainShown == ~isAnalyzing /\ step = "ownerMain" /\ user = "Owner"
ReferencesShown == ~isAnalyzing /\ step = "references"
DashboardsShown == ~isAnalyzing /\ step = "dashboards"

\* a closure whose view was unmounted: its setState calls do nothing
Unmounted(p, analysisStays, employeeStays) ==
    [p EXCEPT !.live = p.live /\ (IF p.flow = "analysis" THEN analysisStays
                                                         ELSE employeeStays)]

\* The component state after a handler: a view that stays mounted keeps the
\* values the handler set, a view that is not rendered has no state and the
\* next mount starts from the useState defaults.
Views(saving, saved, modal, empSaving, editing, updating, pnd, pndEdits) ==
    LET analysisStays == AnalysisShown /\ AnalysisShown'
        employeeStays == EmployeeShown /\ EmployeeShown'
        historyStays == HistoryShown /\ HistoryShown'
    IN  /\ isSaving' = (analysisStays /\ saving)
        /\ isSaved' = (analysisStays /\ saved)
        /\ isEditModalOpen' = (analysisStays /\ modal)
        /\ empIsSaving' = (employeeStays /\ empSaving)
        /\ editingEntry' = IF historyStays THEN editing ELSE NULL
        /\ isUpdating' = (historyStays /\ updating)
        /\ pending' = MapSeq(pnd, LAMBDA p :
                          Unmounted(p, analysisStays, employeeStays))
        /\ pendingEdits' = MapSeq(pndEdits, LAMBDA p :
                          [p EXCEPT !.live = p.live /\ historyStays])

\* the component state is left as it is
SameViews ==
    Views(isSaving, isSaved, isEditModalOpen, empIsSaving, editingEntry,
          isUpdating, pending, pendingEdits)

\* setStep(s) and nothing else of the ledger
Navigate(s) ==
    /\ step' = s
    /\ UNCHANGED <<user, settings, history, board, cart, isAnalyzing,
                   analysisResult, now, reviewing, syncResult>>
    /\ SameViews

-----------------------------------------------------------------------------
(* App *)

Init ==
    /\ user = "None"
    /\ settings = DEFAULT_SETTINGS
    /\ step = "auth"
    /\ history = <<>>
    /\ board = NULL
    /\ cart = <<>>
    /\ isAnalyzing = FALSE
    /\ analysisResult = NULL
    /\ now = 0
    /\ isSaving = FALSE
    /\ isSaved = FALSE
    /\ isEditModalOpen = FALSE
    /\ empIsSaving = FALSE
    /\ editingEntry = NULL
    /\ isUpdating = FALSE
    /\ reviewing = NULL
    /\ pending = <<>>
    /\ pendingEdits = <<>>
    /\ syncResult = "none"
    /\ events = 0
    /\ lastCall = NoCall

\* AuthView.handleSubmit with a matching user, then App.handleLogin
handleLogin ==
    /\ AuthShown
    /\ \E role \in Roles, tempUrl \in Urls \ {""} :
        /\ settings' = IF settings.googleSheetUrl = ""
                       THEN [settings EXCEPT !.googleSheetUrl = tempUrl]
                       ELSE settings
        /\ user' = role
        /\ step' = CASE role = "Employee" -> "employee"
                     [] role = "Owner" -> "ownerMain"
                     [] OTHER -> "input"
    /\ UNCHANGED <<history, board, cart, isAnalyzing, analysisResult, now,
                   reviewing, syncResult>>
    /\ SameViews

\* App.handleLogout, from SettingsView or OwnerMainView
handleLogout ==
    /\ SettingsShown \/ OwnerMainShown
    /\ user' = "None"
    /\ step' = "auth"
    /\ board' = NULL
    /\ cart' = <<>>
    /\ analysisResult' = NULL
    /\ UNCHANGED <<settings, history, isAnalyzing, now, reviewing,
                   syncResult>>
    /\ SameViews

\* App.handleUpdateSettings from the inputs of SettingsView
handleUpdateSettings ==
    /\ SettingsShown
    /\ \/ \E b \in BOOLEAN :
            settings' = [settings EXCEPT !.isYieldControlEnabled = b]
       \/ \E v \in MinYields : settings' = [settings EXCEPT !.minYield = v]
       \/ \E v \in MaxYields : settings' = [settings EXCEPT !.maxYield = v]
       \/ \E u \in Urls : settings' = [settings EXCEPT !.googleSheetUrl = u]
    /\ settings' # settings
    /\ UNCHANGED <<user, step, history, board, cart, isAnalyzing,
                   analysisResult, now, reviewing, syncResult>>
    /\ SameViews

\* App.handleBackFromHistory: the step it returns to
BackFromHistoryStep ==
    IF user = "Employee" THEN "employee"
    ELSE IF analysisResult # NULL THEN "analysis"
    ELSE IF board # NULL THEN "grid"
    ELSE "input"

\* HistoryView onBack; the header is under the edit modal while it is open
handleBackFromHistory ==
    /\ HistoryShown
    /\ editingEntry = NULL
    /\ Navigate(BackFromHistoryStep)

\* SettingsView onBack that returns to the main screen of the owner
SettingsBack_toOwnerMain ==
    /\ SettingsShown
    /\ Navigate("ownerMain")

\* SettingsView onBack
SettingsBack ==
    /\ SettingsShown
    /\ Navigate(IF user = "Owner" THEN "ownerMain" ELSE BackFromHistoryStep)

\* the onOpenSettings / onOpenHistory buttons of the input, grid, analysis
\* and employee screens
OpenSettingsOrHistory ==
    /\ \/ InputShown
       \/ GridShown
       \/ AnalysisShown /\ ~isEditModalOpen
       \/ EmployeeShown
    /\ \E s \in {"settings", "history"} : Navigate(s)

\* the navigation of the owner screens
OwnerNavigate ==
    \/ /\ OwnerMainShown
       /\ \E s \in {"references", "settings", "dashboards"} :
            Navigate(s)
    \/ /\ ReferencesShown \/ DashboardsShown
       /\ Navigate("ownerMain")

-----------------------------------------------------------------------------
(* BoardInput *)

\* dimsValid without the trim of the batch number
dimsValid_noTrim(dims) ==
    /\ ~(dims.length <= 0 \/ dims.width <= 0 \/ dims.thickness <= 0)
    /\ dims.batchNumber # <<>>

\* the checks of BoardInput.handleSubmit and EmployeeInputView.handleSave
dimsValid(dims) ==
    /\ ~(dims.length <= 0 \/ dims.width <= 0 \/ dims.thickness <= 0)
    /\ Trim(dims.batchNumber) # <<>>

\* the contents of the form: Omit<BoardDimensions, 'id'>
BoardInputStates ==
    [length : Lengths, width : Widths, thickness : Thicknesses,
     batchNumber : BatchNumbers]

\* { ...dims, id: Date.now().toString() }
newBoard(dims, id) ==
    [id |-> id, length |-> dims.length, width |-> dims.width,
     thickness |-> dims.thickness, batchNumber |-> dims.batchNumber]

\* BoardInput.handleSubmit and, when the form is valid, App.handleBoardSubmit
handleSubmit ==
    /\ InputShown
    /\ \E dims \in BoardInputStates :
        IF dimsValid(dims)
        THEN /\ now < MaxClock
             /\ now' = now + 1
             /\ board' = newBoard(dims, now + 1)
             /\ step' = "grid"
        ELSE UNCHANGED <<now, board, step>>
    /\ UNCHANGED <<user, settings, history, cart, isAnalyzing, analysisResult,
                   reviewing, syncResult>>
    /\ SameViews

\* the 'to warehouse' button: App.handleStartFetch
handleStartFetch ==
    /\ InputShown
    /\ board' = NULL
    /\ UNCHANGED <<user, settings, step, history, cart, isAnalyzing,
                   analysisResult, now, reviewing, syncResult>>
    /\ SameViews

-----------------------------------------------------------------------------
(* The cart handlers of App *)

\* App.updateAnalysisLocally(newCart): the next analysisResult
updateAnalysisLocally(newCart) ==
    IF step = "analysis" /\ board # NULL /\ analysisResult # NULL
    THEN calculateStats(board, newCart)
    ELSE analysisResult

\* App.handleUpdateCart(product, delta).  newCart is assigned inside the
\* updater given to setCart; React runs that updater either at once, inside
\* setCart, or later while rendering, and then updateAnalysisLocally(newCart)
\* still reads the initial [] of newCart.
handleUpdateCart(product, delta) ==
    /\ getQuantity(cart, product) + delta <= MaxQty
    /\ \E eager \in BOOLEAN :
        LET updated == applyDelta(cart, product, delta)
            newCart == IF eager THEN updated ELSE <<>>
        IN  /\ cart' = updated
            /\ analysisResult' = updateAnalysisLocally(newCart)
    /\ UNCHANGED <<user, settings, step, history, board, isAnalyzing, now,
                   reviewing, syncResult>>

\* App.handleRemoveItem(productId)
handleRemoveItem(productId) ==
    /\ cart' = removeItem(cart, productId)
    /\ analysisResult' = updateAnalysisLocally(removeItem(cart, productId))
    /\ UNCHANGED <<user, settings, step, history, board, isAnalyzing, now,
                   reviewing, syncResult>>

\* App.handleClearCart
handleClearCart ==
    /\ cart' = <<>>
    /\ analysisResult' = updateAnalysisLocally(<<>>)
    /\ UNCHANGED <<user, settings, step, history, board, isAnalyzing, now,
                   reviewing, syncResult>>

-----------------------------------------------------------------------------
(* ProductGrid *)

\* the +/- buttons of a product card: minus is shown when qty > 0
GridUpdateCart ==
    /\ GridShown
    /\ \E product \in ProductIds, delta \in {1, -1} :
        /\ delta = -1 => getQuantity(cart, product) > 0
        /\ handleUpdateCart(product, delta)
    /\ SameViews

\* ProductGrid onBack
GridBack == GridShown /\ Navigate("input")

\* App.handleReview up to the await of analyzeYield
handleReview ==
    /\ GridShown
    /\ totalItems(cart) > 0
    /\ isAnalyzing' = TRUE
    /\ reviewing' = [board |-> board, cart |-> cart]
    /\ UNCHANGED <<user, settings, step, history, board, cart, analysisResult,
                   now, syncResult>>
    /\ SameViews

\* App.handleReview after the await
handleReviewDone ==
    /\ reviewing # NULL
    /\ analysisResult' = analyzeYield(reviewing.board, reviewing.cart)
    /\ step' = "analysis"
    /\ isAnalyzing' = FALSE
    /\ reviewing' = NULL
    /\ UNCHANGED <<user, settings, history, board, cart, now, syncResult>>
    /\ SameViews

-----------------------------------------------------------------------------
(* The persistence collaborator and the history *)

\* what saveToGoogleSheet can resolve to: with a webhook, true, or false when
\* fetch rejects; without one, true after the timeout
saveToGoogleSheetResults(url) == IF url # "" THEN {TRUE, FALSE} ELSE {TRUE}

\* what updateSheetEntry and deleteEntry can resolve to
updateSheetEntryResults(url) == IF url # "" THEN {TRUE, FALSE} ELSE {FALSE}

\* the characters of the decimal digits
DigitChars == <<"0", "1", "2", "3", "4", "5", "6", "7", "8", "9">>

\* the decimal numeral of a natural number, as a sequence of characters
RECURSIVE Decimal(_)
Decimal(n) ==
    IF n < 10 THEN <<DigitChars[n + 1]>>
    ELSE Decimal(n \div 10) \o <<DigitChars[(n % 10) + 1]>>

\* String(n) of an integer, as a template literal formats it
NumberToString(n) == IF n < 0 THEN <<"-">> \o Decimal(-n) ELSE Decimal(n)

\* `${board.length}x${board.width}x${board.thickness}`
formatDims(b) ==
    NumberToString(b.length) \o <<"x">> \o NumberToString(b.width)
        \o <<"x">> \o NumberToString(b.thickness)

\* str.split(sep) for a separator of one character
RECURSIVE split(_, _)
split(str, sep) ==
    IF \E i \in DOMAIN str : str[i] = sep
    THEN LET i == CHOOSE k \in DOMAIN str :
                    /\ str[k] = sep
                    /\ \A j \in 1..(k - 1) : str[j] # sep
         IN  <<SubSeq(str, 1, i - 1)>> \o split(SubSeq(str, i + 1, Len(str)), sep)
    ELSE <<str>>

\* a JavaScript number: an integer, or NaN
Num(n) == [isNaN |-> FALSE, value |-> n]
NaN == [isNaN |-> TRUE, value |-> 0]

\* the value of a sequence of decimal digits
RECURSIVE DigitsValue(_)
DigitsValue(str) ==
    IF str = <<>> THEN 0
    ELSE 10 * DigitsValue(SubSeq(str, 1, Len(str) - 1))
            + (CHOOSE d \in 0..9 : DigitChars[d + 1] = str[Len(str)])

\* Number(str) of an integer numeral: 0 for the empty string, NaN for a
\* string that is no numeral
Number(str) ==
    LET isDigits(t) ==
            /\ t # <<>>
            /\ \A i \in DOMAIN t : \E d \in 1..10 : DigitChars[d] = t[i]
    IN  IF str = <<>> THEN Num(0)
        ELSE IF isDigits(str) THEN Num(DigitsValue(str))
        ELSE IF str[1] = "-" /\ isDigits(Tail(str))
             THEN Num(-DigitsValue(Tail(str)))
        ELSE NaN

\* HistoryView.parseDimensions: a missing part, NaN and 0 all read as 0
parseDimensions(dimsStr, id, batchNumber) ==
    LET parts == MapSeq(split(dimsStr, "x"), Number)
        orZero(k) == IF k \in DOMAIN parts /\ ~parts[k].isNaN
                     THEN parts[k].value ELSE 0
    IN  [id |-> id, length |-> orZero(1), width |-> orZero(2),
         thickness |-> orZero(3), batchNumber |-> batchNumber]

\* the HistoryEntry that a handleSave builds after saveToGoogleSheet
historyEntry(id, b, items, result) ==
    [id |-> id,
     batchNumber |-> b.batchNumber,
     earnings |-> result.earnings,
     yieldPercentage |-> result.yieldPercentage,
     itemCount |-> totalItems(items),
     boardDims |-> formatDims(b),
     boardId |-> b.id,
     boardVolume |-> result.boardVolumeM3,
     cart |-> items]

\* prev.findIndex(item => item.boardId === boardId), 0 for -1
findIndex(prev, boardId) ==
    IF \E i \in DOMAIN prev : prev[i].boardId = boardId
    THEN CHOOSE i \in DOMAIN prev :
            /\ prev[i].boardId = boardId
            /\ \A j \in DOMAIN prev : prev[j].boardId = boardId => i <= j
    ELSE 0

\* handleSaveSuccess without the lookup of the board id: always prepends
handleSaveSuccess_prepends(prev, entry, c) ==
    <<[entry EXCEPT
          !.cart = c.appCart,
          !.boardVolume = IF c.appResult # NULL
                          THEN c.appResult.boardVolumeM3 ELSE M3(0),
          !.boardId = IF c.appBoard # NULL THEN c.appBoard.id
                                           ELSE entry.id]>> \o prev

\* handleSaveSuccess that leaves the history as it is
handleSaveSuccess_drops(prev, entry, c) == prev

\* handleSaveSuccess that takes the old entry of the board out and puts the
\* new one on top
handleSaveSuccess_movesToTop(prev, entry, c) ==
    LET fullEntry ==
            [entry EXCEPT
                !.cart = c.appCart,
                !.boardVolume = IF c.appResult # NULL
                                THEN c.appResult.boardVolumeM3 ELSE M3(0),
                !.boardId = IF c.appBoard # NULL THEN c.appBoard.id
                                                 ELSE entry.id]
    IN  <<fullEntry>> \o
            SelectSeq(prev, LAMBDA item : item.boardId # fullEntry.boardId)

\* App.handleSaveSuccess(entry) applied to the history prev; c holds the cart,
\* analysisResult and board of the App render whose handler was called
handleSaveSuccess(prev, entry, c) ==
    LET fullEntry ==
            [entry EXCEPT
                !.cart = c.appCart,
                !.boardVolume = IF c.appResult # NULL
                                THEN c.appResult.boardVolumeM3 ELSE M3(0),
                !.boardId = IF c.appBoard # NULL THEN c.appBoard.id
                                                 ELSE entry.id]
        existingIndex == findIndex(prev, fullEntry.boardId)
    IN  IF existingIndex >= 1
        THEN [prev EXCEPT ![existingIndex] = fullEntry]
        ELSE <<fullEntry>> \o prev

\* handleHistoryUpdate that matches the entries by their batch number
handleHistoryUpdate_byBatch(prev, updatedEntry) ==
    MapSeq(prev, LAMBDA item :
        IF item.batchNumber = updatedEntry.batchNumber THEN updatedEntry
                                                       ELSE item)

\* App.handleHistoryUpdate(updatedEntry) applied to the history prev
handleHistoryUpdate(prev, updatedEntry) ==
    MapSeq(prev, LAMBDA item :
        IF item.id = updatedEntry.id THEN updatedEntry ELSE item)

\* the closure of a handleSave: the props and state of the render it ran in
SaveClosure(flow, b, items, result) ==
    [flow |-> flow, live |-> TRUE, board |-> b, cart |-> items,
     result |-> result, settings |-> settings,
     appBoard |-> board, appCart |-> cart, appResult |-> analysisResult]

\* pending without its i-th closure
RemoveAt(s, i) == SubSeq(s, 1, i - 1) \o SubSeq(s, i + 1, Len(s))

-----------------------------------------------------------------------------
(* AnalysisView and its CartEditModal *)

\* AnalysisView.canSave
canSave ==
    LET isYieldLow == analysisResult.yieldPercentage < settings.minYield
        isYieldHigh == analysisResult.yieldPercentage > settings.maxYield
        isYieldInvalid == isYieldLow \/ isYieldHigh
    IN  ~isSaved /\ (~settings.isYieldControlEnabled \/ ~isYieldInvalid)

\* AnalysisView onBack
AnalysisBack ==
    /\ AnalysisShown /\ ~isEditModalOpen
    /\ Navigate("grid")

\* the edit button (rendered while !isSaved) and the close buttons of the modal
SetIsEditModalOpen ==
    /\ AnalysisShown
    /\ isEditModalOpen \/ ~isSaved
    /\ UNCHANGED <<user, settings, step, history, board, cart, isAnalyzing,
                   analysisResult, now, reviewing, syncResult>>
    /\ Views(isSaving, isSaved, ~isEditModalOpen, empIsSaving, editingEntry,
             isUpdating, pending, pendingEdits)

\* the +/- buttons of a row of the modal
ModalUpdateCart ==
    /\ AnalysisShown /\ isEditModalOpen
    /\ \E product \in ProductIds, delta \in {1, -1} :
        /\ InCart(cart, product)
        /\ handleUpdateCart(product, delta)
    /\ SameViews

\* the delete button of a row of the modal
ModalRemoveItem ==
    /\ AnalysisShown /\ isEditModalOpen
    /\ \E product \in ProductIds :
        /\ InCart(cart, product)
        /\ handleRemoveItem(product)
    /\ SameViews

\* the clear button of the modal, confirmed: onClearCart, then the modal closes
ModalClearCart ==
    /\ AnalysisShown /\ isEditModalOpen
    /\ Len(cart) > 0
    /\ handleClearCart
    /\ Views(isSaving, isSaved, FALSE, empIsSaving, editingEntry, isUpdating,
             pending, pendingEdits)

\* AnalysisView.handleSave up to the await of saveToGoogleSheet; the button is
\* disabled={!canSave || isSaving}
AnalysisView_handleSave ==
    /\ AnalysisShown /\ ~isEditModalOpen
    /\ canSave /\ ~isSaving
    /\ UNCHANGED <<user, settings, history, board, cart, isAnalyzing,
                   analysisResult, now, reviewing, syncResult>>
    /\ \E confirmSettings \in BOOLEAN :
        IF settings.googleSheetUrl = "" /\ confirmSettings
        THEN /\ step' = "settings"
             /\ SameViews
        ELSE /\ Len(pending) < MaxPending
             /\ step' = step
             /\ Views(TRUE, isSaved, isEditModalOpen, empIsSaving,
                      editingEntry, isUpdating,
                      Append(pending, SaveClosure("analysis", board, cart,
                                                  analysisResult)),
                      pendingEdits)

\* AnalysisView.handleSave after the await of saveToGoogleSheet, for the i-th
\* call in flight, when saveToGoogleSheet resolves to ok: the value is dropped
AnalysisView_handleSaveDoneWith(i, ok) ==
    LET c == pending[i] IN
    /\ c.flow = "analysis"
    /\ now < MaxClock
    /\ ok \in saveToGoogleSheetResults(c.settings.googleSheetUrl)
    /\ syncResult' = IF ok THEN "true" ELSE "false"
    /\ now' = now + 1
    /\ history' = handleSaveSuccess(history,
            historyEntry(now + 1, c.board, c.cart, c.result), c)
    /\ UNCHANGED <<user, settings, step, board, cart, isAnalyzing,
                   analysisResult, reviewing>>
    /\ Views(isSaving /\ ~c.live, isSaved \/ c.live, isEditModalOpen,
             empIsSaving, editingEntry, isUpdating,
             RemoveAt(pending, i), pendingEdits)

AnalysisView_handleSaveDone ==
    \E i \in DOMAIN pending, ok \in BOOLEAN :
        AnalysisView_handleSaveDoneWith(i, ok)

\* handleReset behind a button that is never disabled
handleReset_neverDisabled ==
    /\ AnalysisShown /\ ~isEditModalOpen
    /\ board' = NULL
    /\ cart' = <<>>
    /\ analysisResult' = NULL
    /\ step' = "input"
    /\ UNCHANGED <<user, settings, history, isAnalyzing, now, reviewing,
                   syncResult>>
    /\ SameViews

\* the 'next board' button (disabled={!isSaved}): App.handleReset
handleReset ==
    /\ AnalysisShown /\ ~isEditModalOpen
    /\ isSaved
    /\ board' = NULL
    /\ cart' = <<>>
    /\ analysisResult' = NULL
    /\ step' = "input"
    /\ UNCHANGED <<user, settings, history, isAnalyzing, now, reviewing,
                   syncResult>>
    /\ SameViews

-----------------------------------------------------------------------------
(* EmployeeInputView *)

\* the product buttons: +1 for a product not in the cart, +1/-1 for one in it
EmployeeUpdateCart ==
    /\ EmployeeShown
    /\ \E product \in ProductIds, delta \in {1, -1} :
        /\ delta = -1 => InCart(cart, product)
        /\ handleUpdateCart(product, delta)
    /\ SameViews

\* EmployeeInputView.handleSave up to its first await, with the form holding
\* dims; the button is disabled={isSaving || totalItems === 0};
\* confirmSettings is the answer to the window.confirm of the missing URL
EmployeeInputView_handleSaveWith(dims, confirmSettings) ==
    /\ EmployeeShown
    /\ ~empIsSaving /\ totalItems(cart) > 0
    /\ UNCHANGED <<user, settings, history, board, cart, isAnalyzing,
                   analysisResult, reviewing, syncResult>>
    /\ IF ~dimsValid(dims) \/ Len(cart) = 0
       THEN /\ step' = step /\ now' = now
            /\ SameViews
       ELSE IF settings.googleSheetUrl = ""
       THEN /\ step' = IF confirmSettings THEN "settings" ELSE step
            /\ now' = now
            /\ SameViews
       ELSE /\ Len(pending) < MaxPending
            /\ now < MaxClock
            /\ now' = now + 1
            /\ step' = step
            /\ LET b == newBoard(dims, now + 1) IN
               Views(isSaving, isSaved, isEditModalOpen, TRUE, editingEntry,
                     isUpdating,
                     Append(pending, SaveClosure("employee", b, cart,
                                                 analyzeYield(b, cart))),
                     pendingEdits)

EmployeeInputView_handleSave ==
    \E dims \in BoardInputStates, confirmSettings \in BOOLEAN :
        EmployeeInputView_handleSaveWith(dims, confirmSettings)

\* EmployeeInputView.handleSave after the await of saveToGoogleSheet, for the
\* i-th call in flight: onClearCart, then onSaveSuccess
EmployeeInputView_handleSaveDoneWith(i, ok) ==
    LET c == pending[i] IN
    /\ c.flow = "employee"
    /\ ok \in saveToGoogleSheetResults(c.settings.googleSheetUrl)
    /\ syncResult' = IF ok THEN "true" ELSE "false"
    /\ cart' = <<>>
    /\ history' = handleSaveSuccess(history,
            historyEntry(c.board.id, c.board, c.cart, c.result), c)
    /\ UNCHANGED <<user, settings, step, board, isAnalyzing, analysisResult,
                   now, reviewing>>
    /\ Views(isSaving, isSaved, isEditModalOpen,
             empIsSaving /\ ~c.live, editingEntry, isUpdating,
             RemoveAt(pending, i), pendingEdits)

EmployeeInputView_handleSaveDone ==
    \E i \in DOMAIN pending, ok \in BOOLEAN :
        EmployeeInputView_handleSaveDoneWith(i, ok)

-----------------------------------------------------------------------------
(* HistoryView and its CartEditModal *)

\* the clear button of the header, confirmed: onClearHistory
onClearHistory ==
    /\ HistoryShown /\ editingEntry = NULL
    /\ Len(history) > 0
    /\ history' = <<>>
    /\ UNCHANGED <<user, settings, step, board, cart, isAnalyzing,
                   analysisResult, now, reviewing, syncResult>>
    /\ SameViews

\* a handler of HistoryView that only sets editingEntry
SetEditingEntry(entry) ==
    /\ UNCHANGED <<user, settings, step, history, board, cart, isAnalyzing,
                   analysisResult, now, reviewing, syncResult>>
    /\ Views(isSaving, isSaved, isEditModalOpen, empIsSaving, entry,
             isUpdating, pending, pendingEdits)

\* HistoryView.handleEditClick(entry)
handleEditClick ==
    /\ HistoryShown /\ editingEntry = NULL
    /\ \E i \in DOMAIN history :
        SetEditingEntry(history[i])

\* HistoryView.handleCartUpdate(product, delta), from the rows of the modal
handleCartUpdate ==
    /\ HistoryShown /\ editingEntry # NULL
    /\ \E product \in ProductIds, delta \in {1, -1} :
        /\ InCart(editingEntry.cart, product)
        /\ getQuantity(editingEntry.cart, product) + delta <= MaxQty
        /\ SetEditingEntry([editingEntry EXCEPT
                  !.cart = applyDelta(editingEntry.cart, product, delta)])

\* HistoryView.handleCartRemove(productId)
handleCartRemove ==
    /\ HistoryShown /\ editingEntry # NULL
    /\ \E product \in ProductIds :
        /\ InCart(editingEntry.cart, product)
        /\ SetEditingEntry([editingEntry EXCEPT
                  !.cart = removeItem(editingEntry.cart, product)])

\* HistoryView.handleCartClear, confirmed
handleCartClear ==
    /\ HistoryShown /\ editingEntry # NULL
    /\ Len(editingEntry.cart) > 0
    /\ SetEditingEntry([editingEntry EXCEPT !.cart = <<>>])

\* the close buttons of the modal: setEditingEntry(null)
CloseEditingEntry ==
    /\ HistoryShown /\ editingEntry # NULL
    /\ SetEditingEntry(NULL)

\* handleSaveEdit that asks for an update of the sheet row whatever the cart
collaboratorCall_alwaysUpdates(entry) ==
    [fn |-> "updateSheetEntry", boardId |-> entry.boardId]

\* the call that handleSaveEdit awaits: deleteEntry(editingEntry.boardId, url)
\* when the edited cart is empty, updateSheetEntry(editingEntry.boardId, ...)
\* when it is not
collaboratorCall(entry) ==
    IF Len(entry.cart) = 0
    THEN [fn |-> "deleteEntry", boardId |-> entry.boardId]
    ELSE [fn |-> "updateSheetEntry", boardId |-> entry.boardId]

\* HistoryView.handleSaveEdit up to the await of deleteEntry or
\* updateSheetEntry; the button is disabled={isUpdating}
handleSaveEdit ==
    /\ HistoryShown /\ editingEntry # NULL
    /\ ~isUpdating
    /\ Len(pendingEdits) < MaxPendingEdits
    /\ UNCHANGED <<user, settings, step, history, board, cart, isAnalyzing,
                   analysisResult, now, reviewing, syncResult>>
    /\ Views(isSaving, isSaved, isEditModalOpen, empIsSaving, editingEntry,
             TRUE, pending,
             Append(pendingEdits,
                    [live |-> TRUE, entry |-> editingEntry,
                     settings |-> settings,
                     request |-> collaboratorCall(editingEntry)]))

\* updatedEntry that leaves the figures of an emptied entry as they were
updatedEntry_keepsFigures(entry) ==
    IF Len(entry.cart) = 0
    THEN entry
    ELSE LET boardDims == parseDimensions(entry.boardDims, entry.boardId,
                                          entry.batchNumber)
             stats == calculateStats(boardDims, entry.cart)
         IN  [entry EXCEPT !.earnings = stats.earnings,
                           !.yieldPercentage = stats.yieldPercentage,
                           !.itemCount = totalItems(entry.cart)]

\* the entry that handleSaveEdit hands to onUpdateHistoryEntry
updatedEntry(entry) ==
    IF Len(entry.cart) = 0
    THEN [entry EXCEPT !.earnings = 0, !.yieldPercentage = 0,
                       !.itemCount = 0, !.cart = <<>>]
    ELSE LET boardDims == parseDimensions(entry.boardDims, entry.boardId,
                                          entry.batchNumber)
             stats == calculateStats(boardDims, entry.cart)
         IN  [entry EXCEPT !.earnings = stats.earnings,
                           !.yieldPercentage = stats.yieldPercentage,
                           !.itemCount = totalItems(entry.cart)]

\* handleSaveEdit that updates the local history before it knows the outcome
historyAfterEdit_optimistic(prev, entry, success) ==
    handleHistoryUpdate(prev, updatedEntry(entry))

\* the history after the continuation of handleSaveEdit:
\* if (success) onUpdateHistoryEntry(updatedEntry); a call that threw has
\* skipped the update like one that resolved to false
historyAfterEdit(prev, entry, success) ==
    IF success THEN handleHistoryUpdate(prev, updatedEntry(entry)) ELSE prev

\* the window.alert that ends handleSaveEdit, by its text in English, "none"
\* when it shows none
editAlert(success) ==
    IF success THEN "none" ELSE "could not update the Google sheet"

\* handleSaveEditDoneWith with setIsUpdating(false) at the end of the try
\* block instead of in a finally block
handleSaveEditDoneWith_noFinally(i, success) ==
    LET c == pendingEdits[i] IN
    /\ success \in updateSheetEntryResults(c.settings.googleSheetUrl)
    /\ history' = historyAfterEdit(history, c.entry, success)
    /\ UNCHANGED <<user, settings, step, board, cart, isAnalyzing,
                   analysisResult, now, reviewing, syncResult>>
    /\ Views(isSaving, isSaved, isEditModalOpen, empIsSaving,
             IF c.live /\ success THEN NULL ELSE editingEntry,
             isUpdating /\ ~(c.live /\ success), pending,
             RemoveAt(pendingEdits, i))

\* HistoryView.handleSaveEdit after the await, for the i-th call in flight,
\* when the collaborator call gave success (false also stands for a throw)
handleSaveEditDoneWith(i, success) ==
    LET c == pendingEdits[i] IN
    /\ success \in updateSheetEntryResults(c.settings.googleSheetUrl)
    /\ history' = historyAfterEdit(history, c.entry, success)
    /\ UNCHANGED <<user, settings, step, board, cart, isAnalyzing,
                   analysisResult, now, reviewing, syncResult>>
    /\ Views(isSaving, isSaved, isEditModalOpen, empIsSaving,
             IF c.live /\ success THEN NULL ELSE editingEntry,
             isUpdating /\ ~c.live, pending,
             RemoveAt(pendingEdits, i))

handleSaveEditDone ==
    \E i \in DOMAIN pendingEdits, success \in BOOLEAN :
        handleSaveEditDoneWith(i, success)

-----------------------------------------------------------------------------
(* The program *)

\* one run of a handler, within the budget of the model
Handler(A) ==
    /\ events < MaxEvents
    /\ events' = events + 1
    /\ lastCall' = lastCall
    /\ A

Next ==
    \/ Handler(handleLogin)
    \/ Handler(handleLogout)
    \/ Handler(handleUpdateSettings)
    \/ Handler(handleBackFromHistory)
    \/ Handler(SettingsBack)
    \/ Handler(OpenSettingsOrHistory)
    \/ Handler(OwnerNavigate)
    \/ Handler(handleSubmit)
    \/ Handler(handleStartFetch)
    \/ Handler(GridUpdateCart)
    \/ Handler(GridBack)
    \/ Handler(handleReview)
    \/ Handler(handleReviewDone)
    \/ Handler(AnalysisBack)
    \/ Handler(SetIsEditModalOpen)
    \/ Handler(ModalUpdateCart)
    \/ Handler(ModalRemoveItem)
    \/ Handler(ModalClearCart)
    \/ Handler(AnalysisView_handleSave)
    \/ Handler(AnalysisView_handleSaveDone)
    \/ Handler(handleReset)
    \/ Handler(EmployeeUpdateCart)
    \/ Handler(EmployeeInputView_handleSave)
    \/ Handler(EmployeeInputView_handleSaveDone)
    \/ Handler(onClearHistory)
    \/ Handler(handleEditClick)
    \/ Handler(handleCartUpdate)
    \/ Handler(handleCartRemove)
    \/ Handler(handleCartClear)
    \/ Handler(CloseEditingEntry)
    \/ Handler(handleSaveEdit)
    \/ Handler(handleSaveEditDone)

Spec == Init /\ [][Next]_vars

-----------------------------------------------------------------------------
(* The history updater on its own: App.handleSaveSuccess applied to the     *)
(* entries that completed saves hand to it, for several boards and carts    *)

\* the variables that the function-level specifications leave alone
appAtRest ==
    <<user, settings, step, board, isAnalyzing, analysisResult, isSaving,
      isSaved, isEditModalOpen, empIsSaving, editingEntry, isUpdating,
      reviewing, pending, pendingEdits, syncResult, events>>

\* a form that BoardInput.handleSubmit accepts
validDims ==
    [length |-> 2000, width |-> 150, thickness |-> 50, batchNumber |-> <<"7">>]

\* the carts of the saves
SavedCarts ==
    { <<[product |-> "p1", quantity |-> 1]>>,
      <<[product |-> "p1", quantity |-> 2]>>,
      <<[product |-> "p2", quantity |-> 1], [product |-> "p1", quantity |-> 1]>> }

\* the boards 1..MaxBoards have been entered, nothing has been saved
InitHistory ==
    /\ user = "None"
    /\ settings = DEFAULT_SETTINGS
    /\ step = "auth"
    /\ history = <<>>
    /\ board = NULL
    /\ cart = <<>>
    /\ isAnalyzing = FALSE
    /\ analysisResult = NULL
    /\ now = MaxBoards
    /\ isSaving = FALSE
    /\ isSaved = FALSE
    /\ isEditModalOpen = FALSE
    /\ empIsSaving = FALSE
    /\ editingEntry = NULL
    /\ isUpdating = FALSE
    /\ reviewing = NULL
    /\ pending = <<>>
    /\ pendingEdits = <<>>
    /\ syncResult = "none"
    /\ events = 0
    /\ lastCall = NoCall

\* the end of AnalysisView.handleSave for the board boardId with the cart
\* items: onSaveSuccess(entry) in the render that holds this board and cart
AnalysisSaveSuccess(boardId, items) ==
    LET b == newBoard(validDims, boardId)
        result == analyzeYield(b, items)
        entry == historyEntry(now + 1, b, items, result)
        c == [appBoard |-> b, appCart |-> items, appResult |-> result]
    IN  /\ now < MaxBoards + MaxSaves
        /\ now' = now + 1
        /\ history' = handleSaveSuccess(history, entry, c)
        /\ lastCall' = [name |-> "handleSaveSuccess", before |-> history,
                        entry |-> entry]
        /\ UNCHANGED cart
        /\ UNCHANGED appAtRest

\* the end of EmployeeInputView.handleSave with the cart items: the board is
\* made by the save itself and App holds no board and no analysisResult
EmployeeSaveSuccess(items) ==
    LET b == newBoard(validDims, now + 1)
        result == analyzeYield(b, items)
        entry == historyEntry(b.id, b, items, result)
        c == [appBoard |-> NULL, appCart |-> items, appResult |-> NULL]
    IN  /\ now < MaxBoards + MaxSaves
        /\ now' = now + 1
        /\ history' = handleSaveSuccess(history, entry, c)
        /\ lastCall' = [name |-> "handleSaveSuccess", before |-> history,
                        entry |-> entry]
        /\ UNCHANGED cart
        /\ UNCHANGED appAtRest

NextHistory ==
    \/ \E boardId \in 1..MaxBoards, items \in SavedCarts :
            AnalysisSaveSuccess(boardId, items)
    \/ \E items \in SavedCarts : EmployeeSaveSuccess(items)

SpecHistory == InitHistory /\ [][NextHistory]_vars

-----------------------------------------------------------------------------
(* The cart updaters and the stats calculator on their own: the updaters of *)
(* handleUpdateCart, handleRemoveItem and handleClearCart applied to the    *)
(* cart for every product and every delta of -MaxDelta..MaxDelta, and       *)
(* calculateStats applied to the cart with and without a board              *)

\* the deltas handed to the updater
Deltas == (0 - MaxDelta)..MaxDelta

\* the boards handed to calculateStats: none, the board of the form, one
\* with no volume, a larger and a smaller one
StatsBoards ==
    {NULL, newBoard(validDims, 1),
     newBoard([validDims EXCEPT !.thickness = 0], 1),
     newBoard([validDims EXCEPT !.length = 3800, !.width = 200], 1),
     newBoard([validDims EXCEPT !.length = 1000, !.width = 100,
                                !.thickness = 40], 1)}

\* the state after construction: the cart is empty
InitCart ==
    /\ user = "None"
    /\ settings = DEFAULT_SETTINGS
    /\ step = "auth"
    /\ history = <<>>
    /\ board = NULL
    /\ cart = <<>>
    /\ isAnalyzing = FALSE
    /\ analysisResult = NULL
    /\ now = 0
    /\ isSaving = FALSE
    /\ isSaved = FALSE
    /\ isEditModalOpen = FALSE
    /\ empIsSaving = FALSE
    /\ editingEntry = NULL
    /\ isUpdating = FALSE
    /\ reviewing = NULL
    /\ pending = <<>>
    /\ pendingEdits = <<>>
    /\ syncResult = "none"
    /\ events = 0
    /\ lastCall = NoCall

\* setCart with the updater of handleUpdateCart(product, delta)
CartApplyDelta ==
    \E product \in ProductIds, delta \in Deltas :
        /\ getQuantity(cart, product) + delta <= MaxCartQty
        /\ cart' = applyDelta(cart, product, delta)
        /\ lastCall' = [name |-> "applyDelta", product |-> product,
                        delta |-> delta, before |-> cart]
        /\ UNCHANGED history /\ UNCHANGED now
        /\ UNCHANGED appAtRest

\* setCart with the updater of handleRemoveItem(productId)
CartRemoveItem ==
    \E productId \in ProductIds :
        /\ cart' = removeItem(cart, productId)
        /\ lastCall' = [name |-> "removeItem", product |-> productId,
                        before |-> cart]
        /\ UNCHANGED history /\ UNCHANGED now
        /\ UNCHANGED appAtRest

\* setCart([]) of handleClearCart
CartClear ==
    /\ cart' = <<>>
    /\ lastCall' = [name |-> "clear", before |-> cart]
    /\ UNCHANGED history /\ UNCHANGED now
    /\ UNCHANGED appAtRest

\* calculateStats(board, cart) of a render, for a board of StatsBoards
CartStats ==
    \E b \in StatsBoards :
        /\ lastCall' = [name |-> "calculateStats", board |-> b,
                        result |-> calculateStats(b, cart)]
        /\ UNCHANGED cart
        /\ UNCHANGED history /\ UNCHANGED now
        /\ UNCHANGED appAtRest

\* analyzeYield(board, cart, isAiEnabled) of a review, for a board of
\* StatsBoards
CartReview ==
    \E b \in StatsBoards, isAiEnabled \in BOOLEAN :
        /\ lastCall' = [name |-> "analyzeYield", board |-> b,
                        isAiEnabled |-> isAiEnabled,
                        threw |-> analyzeYieldThrows(b, cart, isAiEnabled),
                        result |-> IF analyzeYieldThrows(b, cart, isAiEnabled)
                                   THEN NULL
                                   ELSE analyzeYield(b, cart)]
        /\ UNCHANGED cart
        /\ UNCHANGED history /\ UNCHANGED now
        /\ UNCHANGED appAtRest

NextCart ==
    \/ CartApplyDelta
    \/ CartRemoveItem
    \/ CartClear
    \/ CartStats
    \/ CartReview

SpecCart == InitCart /\ [][NextCart]_vars

-----------------------------------------------------------------------------
(* The shifts of one operator: the board input, product grid and analysis   *)
(* screens with the history and settings screens beside them, from the      *)
(* board input screen after login. The calls of handleBoardSubmit and       *)
(* handleReset are recorded with the state they found.                      *)

\* handler runs of one behaviour of SpecShift
MaxShiftEvents == 12

\* an operator has logged in, the sheet URL is set
InitShift ==
    /\ user = "Admin"
    /\ settings = [DEFAULT_SETTINGS EXCEPT !.googleSheetUrl = "https://hook"]
    /\ step = "input"
    /\ history = <<>>
    /\ board = NULL
    /\ cart = <<>>
    /\ isAnalyzing = FALSE
    /\ analysisResult = NULL
    /\ now = 0
    /\ isSaving = FALSE
    /\ isSaved = FALSE
    /\ isEditModalOpen = FALSE
    /\ empIsSaving = FALSE
    /\ editingEntry = NULL
    /\ isUpdating = FALSE
    /\ reviewing = NULL
    /\ pending = <<>>
    /\ pendingEdits = <<>>
    /\ syncResult = "none"
    /\ events = 0
    /\ lastCall = NoCall

\* a handler run of the shift whose call is not recorded
ShiftHandler(A) ==
    /\ events < MaxShiftEvents
    /\ events' = events + 1
    /\ lastCall' = NoCall
    /\ A

\* BoardInput.handleSubmit; a call of App.handleBoardSubmit is recorded with
\* the ledger it found
ShiftBoardSubmit ==
    /\ events < MaxShiftEvents
    /\ events' = events + 1
    /\ handleSubmit
    /\ lastCall' = IF step' = "grid"
                   THEN [name |-> "handleBoardSubmit",
                         before |-> [board |-> board, cart |-> cart,
                                     analysisResult |-> analysisResult]]
                   ELSE NoCall

\* the 'next board' button, recorded with the state it found
ShiftReset ==
    /\ events < MaxShiftEvents
    /\ events' = events + 1
    /\ handleReset
    /\ lastCall' = [name |-> "handleReset",
                    before |-> [board |-> board, cart |-> cart,
                                isSaved |-> isSaved, history |-> history]]

NextShift ==
    \/ ShiftBoardSubmit
    \/ ShiftHandler(handleStartFetch)
    \/ ShiftHandler(GridUpdateCart)
    \/ ShiftHandler(GridBack)
    \/ ShiftHandler(handleReview)
    \/ ShiftHandler(handleReviewDone)
    \/ ShiftHandler(AnalysisBack)
    \/ ShiftHandler(SetIsEditModalOpen)
    \/ ShiftHandler(ModalUpdateCart)
    \/ ShiftHandler(ModalRemoveItem)
    \/ ShiftHandler(ModalClearCart)
    \/ ShiftHandler(AnalysisView_handleSave)
    \/ ShiftHandler(AnalysisView_handleSaveDone)
    \/ ShiftReset
    \/ ShiftHandler(OpenSettingsOrHistory)
    \/ ShiftHandler(handleBackFromHistory)
    \/ ShiftHandler(SettingsBack)

SpecShift == InitShift /\ [][NextShift]_vars

-----------------------------------------------------------------------------
(* The settling of the calls in flight. A promise of a collaborator call    *)
(* settles: fetch resolves or rejects, the simulated save resolves after    *)
(* its timeout. The handlers are those of Spec; the continuations after an  *)
(* await are outside the budget of handler runs and are taken under weak    *)
(* fairness. Besides the outcomes the collaborators of this repository      *)
(* produce (true, false) the awaited call may reject, which runs the catch  *)
(* and finally blocks of the handler.                                       *)

\* handler runs of one behaviour of SpecLive, continuations not counted
MaxLiveEvents == 8

\* the catch and finally blocks of App.handleReview: alert, setIsAnalyzing(false)
handleReviewThrew ==
    /\ reviewing # NULL
    /\ isAnalyzing' = FALSE
    /\ reviewing' = NULL
    /\ UNCHANGED <<user, settings, step, history, board, cart, analysisResult,
                   now, syncResult>>
    /\ SameViews

\* the catch and finally blocks of AnalysisView.handleSave and of
\* EmployeeInputView.handleSave for the i-th call in flight: alert,
\* setIsSaving(false)
handleSaveThrew ==
    \E i \in DOMAIN pending :
        LET c == pending[i] IN
        /\ UNCHANGED <<user, settings, step, history, board, cart,
                       isAnalyzing, analysisResult, now, reviewing,
                       syncResult>>
        /\ Views(isSaving /\ ~(c.flow = "analysis" /\ c.live), isSaved,
                 isEditModalOpen,
                 empIsSaving /\ ~(c.flow = "employee" /\ c.live),
                 editingEntry, isUpdating, RemoveAt(pending, i),
                 pendingEdits)

\* a handler run up to its first await or to its end
LiveHandler(A) ==
    /\ events < MaxLiveEvents
    /\ events' = events + 1
    /\ lastCall' = NoCall
    /\ A

\* a handler run that reads Date.now() for an id; every save in flight reads
\* it once more when it settles
LiveClockedHandler(A) ==
    /\ now + Len(pending) < MaxClock
    /\ LiveHandler(A)

\* the continuation of a handler after its await, recorded with the way the
\* awaited call ended and whether the handler alerted the user
Settled(handler, outcome, alerted, A) ==
    /\ A
    /\ events' = events
    /\ lastCall' = [name |-> "settled", handler |-> handler,
                    outcome |-> outcome, alerted |-> alerted]

ReviewSettled ==
    \/ Settled("handleReview", "resolved", FALSE, handleReviewDone)
    \/ Settled("handleReview", "threw", TRUE, handleReviewThrew)

SaveSettled ==
    \/ \E i \in DOMAIN pending, ok \in BOOLEAN :
          Settled("AnalysisView.handleSave",
                  IF ok THEN "true" ELSE "false", FALSE,
                  AnalysisView_handleSaveDoneWith(i, ok))
    \/ \E i \in DOMAIN pending, ok \in BOOLEAN :
          Settled("EmployeeInputView.handleSave",
                  IF ok THEN "true" ELSE "false", FALSE,
                  EmployeeInputView_handleSaveDoneWith(i, ok))
    \/ Settled("handleSave", "threw", TRUE, handleSaveThrew)

EditSettledLive ==
    \E i \in DOMAIN pendingEdits, success \in BOOLEAN :
        Settled("handleSaveEdit", IF success THEN "true" ELSE "false",
                editAlert(success) # "none",
                handleSaveEditDoneWith(i, success))

NextLive ==
    \/ LiveHandler(handleLogin)
    \/ LiveHandler(handleLogout)
    \/ LiveHandler(handleBackFromHistory)
    \/ LiveHandler(SettingsBack)
    \/ LiveHandler(OpenSettingsOrHistory)
    \/ LiveHandler(OwnerNavigate)
    \/ LiveClockedHandler(handleSubmit)
    \/ LiveHandler(GridUpdateCart)
    \/ LiveHandler(GridBack)
    \/ LiveHandler(handleReview)
    \/ LiveHandler(AnalysisBack)
    \/ LiveClockedHandler(AnalysisView_handleSave)
    \/ LiveHandler(handleReset)
    \/ LiveHandler(EmployeeUpdateCart)
    \/ LiveClockedHandler(EmployeeInputView_handleSave)
    \/ LiveHandler(handleEditClick)
    \/ LiveHandler(handleCartUpdate)
    \/ LiveHandler(CloseEditingEntry)
    \/ LiveHandler(handleSaveEdit)
    \/ ReviewSettled
    \/ SaveSettled
    \/ EditSettledLive

SpecLive ==
    /\ Init
    /\ [][NextLive]_vars
    /\ WF_vars(ReviewSettled)
    /\ WF_vars(SaveSettled)
    /\ WF_vars(EditSettledLive)

-----------------------------------------------------------------------------
(* Login, logout and navigation, from every start of the application: the   *)
(* user and the step are initialised from localStorage, where handleLogin   *)
(* has stored the user object ('lumberUserObj') and older versions a bare    *)
(* name ('lumberUser')                                                      *)

\* handler runs of one behaviour of SpecRoles
MaxRoleEvents == 7

\* what localStorage.getItem('lumberUserObj') holds: nothing, text that
\* JSON.parse rejects, or the user object of a role
SavedUsers == {"absent", "corrupt"} \cup Roles

\* the initialiser of the user state
initialUser(saved, oldName) ==
    IF saved # "absent"
    THEN (IF saved = "corrupt" THEN "None" ELSE saved)
    ELSE IF oldName THEN "Employee" ELSE "None"

\* the initialiser of the step state
initialStep(saved, oldName) ==
    IF saved # "absent"
    THEN (IF saved = "corrupt" THEN "auth"
          ELSE IF saved = "Employee" THEN "employee"
          ELSE IF saved = "Owner" THEN "ownerMain"
          ELSE "input")
    ELSE IF oldName THEN "employee" ELSE "auth"

InitRoles ==
    /\ \E saved \in SavedUsers, oldName \in BOOLEAN :
        /\ user = initialUser(saved, oldName)
        /\ step = initialStep(saved, oldName)
    /\ settings = DEFAULT_SETTINGS
    /\ history = <<>>
    /\ board = NULL
    /\ cart = <<>>
    /\ isAnalyzing = FALSE
    /\ analysisResult = NULL
    /\ now = 0
    /\ isSaving = FALSE
    /\ isSaved = FALSE
    /\ isEditModalOpen = FALSE
    /\ empIsSaving = FALSE
    /\ editingEntry = NULL
    /\ isUpdating = FALSE
    /\ reviewing = NULL
    /\ pending = <<>>
    /\ pendingEdits = <<>>
    /\ syncResult = "none"
    /\ events = 0
    /\ lastCall = NoCall

\* a handler run of SpecRoles
RoleHandler(A) ==
    /\ events < MaxRoleEvents
    /\ events' = events + 1
    /\ lastCall' = NoCall
    /\ A

NextRoles ==
    \/ RoleHandler(handleLogin)
    \/ RoleHandler(handleLogout)
    \/ RoleHandler(OwnerNavigate)
    \/ RoleHandler(OpenSettingsOrHistory)
    \/ RoleHandler(SettingsBack)
    \/ RoleHandler(handleBackFromHistory)
    \/ RoleHandler(handleSubmit)
    \/ RoleHandler(handleStartFetch)
    \/ RoleHandler(GridBack)

SpecRoles == InitRoles /\ [][NextRoles]_vars

-----------------------------------------------------------------------------
(* The history screen on its own: the handlers of HistoryView and its edit  *)
(* modal, and the navigation that unmounts the view, from a shift of an     *)
(* employee who has saved two boards                                        *)

\* the entry that the employee flow has recorded for board id with cart items
savedEntry(id, items) ==
    LET b == newBoard(validDims, id)
        result == analyzeYield(b, items)
    IN  handleSaveSuccess(<<>>, historyEntry(id, b, items, result),
            [appBoard |-> NULL, appCart |-> items, appResult |-> NULL])[1]

\* HistoryView is open on two saved boards; the sheet URL is set or not
InitEdit ==
    /\ user = "Employee"
    /\ \E u \in Urls : settings = [DEFAULT_SETTINGS EXCEPT !.googleSheetUrl = u]
    /\ step = "history"
    /\ history = <<savedEntry(2, <<[product |-> "p2", quantity |-> 1],
                                   [product |-> "p1", quantity |-> 1]>>),
                   savedEntry(1, <<[product |-> "p1", quantity |-> 2]>>)>>
    /\ board = NULL
    /\ cart = <<>>
    /\ isAnalyzing = FALSE
    /\ analysisResult = NULL
    /\ now = 2
    /\ isSaving = FALSE
    /\ isSaved = FALSE
    /\ isEditModalOpen = FALSE
    /\ empIsSaving = FALSE
    /\ editingEntry = NULL
    /\ isUpdating = FALSE
    /\ reviewing = NULL
    /\ pending = <<>>
    /\ pendingEdits = <<>>
    /\ syncResult = "none"
    /\ events = 0
    /\ lastCall = NoCall

\* a handler whose call is not recorded
Unrecorded(A) ==
    /\ A
    /\ events' = events
    /\ lastCall' = NoCall

\* handleSaveEdit up to its await, recorded with the entry being edited
EditConfirmed ==
    /\ handleSaveEdit
    /\ events' = events
    /\ lastCall' = [name |-> "handleSaveEdit", entry |-> editingEntry,
                    inFlight |-> pendingEdits]

\* the continuation of handleSaveEdit, recorded with the call it awaited, the
\* outcome, the history and edit session it found and the alert it showed
EditSettled ==
    \E i \in DOMAIN pendingEdits, success \in BOOLEAN :
        /\ handleSaveEditDoneWith(i, success)
        /\ events' = events
        /\ lastCall' = [name |-> "handleSaveEditDone",
                        request |-> pendingEdits[i].request,
                        url |-> pendingEdits[i].settings.googleSheetUrl,
                        entry |-> pendingEdits[i].entry,
                        success |-> success,
                        before |-> history,
                        session |-> editingEntry,
                        alert |-> editAlert(success)]

NextEdit ==
    \/ Unrecorded(handleEditClick)
    \/ Unrecorded(handleCartUpdate)
    \/ Unrecorded(handleCartRemove)
    \/ Unrecorded(handleCartClear)
    \/ Unrecorded(CloseEditingEntry)
    \/ EditConfirmed
    \/ EditSettled
    \/ Unrecorded(onClearHistory)
    \/ Unrecorded(handleBackFromHistory)
    \/ Unrecorded(OpenSettingsOrHistory)
    \/ Unrecorded(SettingsBack)

SpecEdit == InitEdit /\ [][NextEdit]_vars

-----------------------------------------------------------------------------
(* The screen of an employee: the product buttons and the save of           *)
(* EmployeeInputView with the history and settings screens beside it. A     *)
(* save that settles is recorded with its closure and the cart it found.    *)

\* handler runs of one behaviour of SpecEmployee
MaxEmployeeEvents == 8

\* an employee has logged in, the sheet URL is set
InitEmployee ==
    /\ user = "Employee"
    /\ settings = [DEFAULT_SETTINGS EXCEPT !.googleSheetUrl = "https://hook"]
    /\ step = "employee"
    /\ history = <<>>
    /\ board = NULL
    /\ cart = <<>>
    /\ isAnalyzing = FALSE
    /\ analysisResult = NULL
    /\ now = 0
    /\ isSaving = FALSE
    /\ isSaved = FALSE
    /\ isEditModalOpen = FALSE
    /\ empIsSaving = FALSE
    /\ editingEntry = NULL
    /\ isUpdating = FALSE
    /\ reviewing = NULL
    /\ pending = <<>>
    /\ pendingEdits = <<>>
    /\ syncResult = "none"
    /\ events = 0
    /\ lastCall = NoCall

\* EmployeeInputView.handleSave after the await of saveToGoogleSheet, recorded
\* with the closure of the save, the cart it found and the history it left
EmployeeSaveSettled ==
    \E i \in DOMAIN pending, ok \in BOOLEAN :
        /\ EmployeeInputView_handleSaveDoneWith(i, ok)
        /\ events < MaxEmployeeEvents
        /\ events' = events + 1
        /\ lastCall' = [name |-> "EmployeeInputView.handleSave",
                        ok |-> ok,
                        board |-> pending[i].board,
                        saved |-> pending[i].cart,
                        cartBefore |-> cart]

\* a handler run of the employee's screens whose call is not recorded
EmployeeHandler(A) ==
    /\ events < MaxEmployeeEvents
    /\ events' = events + 1
    /\ lastCall' = NoCall
    /\ A

NextEmployee ==
    \/ EmployeeHandler(EmployeeUpdateCart)
    \/ EmployeeHandler(EmployeeInputView_handleSave)
    \/ EmployeeSaveSettled
    \/ EmployeeHandler(OpenSettingsOrHistory)
    \/ EmployeeHandler(handleBackFromHistory)
    \/ EmployeeHandler(SettingsBack)

SpecEmployee == InitEmployee /\ [][NextEmployee]_vars

-----------------------------------------------------------------------------
(* Properties *)

\* the history holds an entry of the board with this id
HasEntry(boardId) == \E k \in DOMAIN history : history[k].boardId = boardId

\* the yield of a shift lies in the band of these settings
InBand(yield, st) == st.minYield <= yield /\ yield <= st.maxYield

\* C1: starting from the empty history, after any sequence of saves, edits
\* and clears the history holds at most one entry per board id
C1_OneEntryPerBoard ==
    \A i, j \in DOMAIN history :
        history[i].boardId = history[j].boardId => i = j

\* C1: the board with id 1 has been held all along, and both later
\* identifiers went to entries of two completed saves of it
C1_SecondSaveOverwrote ==
    /\ board # NULL /\ board.id = 1
    /\ now = 3
    /\ Len(history) = 1
    /\ history[1].boardId = 1 /\ history[1].id = 3

\* C2: no two saveToGoogleSheet calls are in flight for the same board
C2_OneSaveInFlight ==
    \A i, j \in DOMAIN pending :
        pending[i].board.id = pending[j].board.id => i = j

\* C3: a handleSave whose saveToGoogleSheet call resolves to false leaves the
\* shift as it was before the call: isSaved and the cart keep their values
C3_FailedSyncKeepsShift ==
    [][\A i \in DOMAIN pending :
          (\/ AnalysisView_handleSaveDoneWith(i, FALSE)
           \/ EmployeeInputView_handleSaveDoneWith(i, FALSE))
          => isSaved' = isSaved /\ cart' = cart]_vars

\* C4: once the history holds an entry of the current board, the cart and the
\* board stay as they are until handleReset (or the logout) clears them
C4_SavedIsTerminal ==
    [][(board # NULL /\ HasEntry(board.id))
          => \/ cart' = cart /\ board' = board
             \/ handleReset
             \/ handleLogout]_vars

\* C5: whenever the analysis screen is shown, analysisResult is
\* calculateStats of the current board and cart
C5_ResultMatchesLedger ==
    AnalysisShown => analysisResult = calculateStats(board, cart)

\* C6: no save is in flight that was started with the yield control enabled
\* and the yield of its board and cart outside the band
C6_GateRejectsSave ==
    \A i \in DOMAIN pending :
        LET c == pending[i] IN
        c.settings.isYieldControlEnabled
            => InBand(calculateStats(c.board, c.cart).yieldPercentage,
                      c.settings)

\* C7: no save is in flight for an empty cart
C7_EmptyCartRejected ==
    \A i \in DOMAIN pending : Len(pending[i].cart) > 0

\* the board held has positive dimensions and a batch number that is not
\* blank
BoardHeldIsValid ==
    board # NULL
        => /\ board.length > 0 /\ board.width > 0 /\ board.thickness > 0
           /\ Trim(board.batchNumber) # <<>>

\* a step from no board to a board is a handleSubmit of a valid form
OnlyValidSubmitSelects ==
    (board = NULL /\ board' # NULL)
        => /\ InputShown
           /\ step' = "grid"
           /\ \E dims \in BoardInputStates :
                /\ dimsValid(dims)
                /\ dims.length > 0 /\ dims.width > 0 /\ dims.thickness > 0
                /\ Trim(dims.batchNumber) # <<>>
                /\ board' = newBoard(dims, now')

C9_FailedSyncStillRecorded ==
    [][\A i \in DOMAIN pending :
          (\/ AnalysisView_handleSaveDoneWith(i, FALSE)
           \/ EmployeeInputView_handleSaveDoneWith(i, FALSE))
          => \E k \in DOMAIN history' :
                /\ history'[k].boardId = pending[i].board.id
                /\ history'[k].cart = pending[i].cart]_vars

\* C9: the last saveToGoogleSheet call resolved to false and the history
\* holds an entry
C9_RecordedAfterFailure ==
    /\ syncResult = "false"
    /\ Len(history) > 0
    /\ Len(history[1].cart) > 0

\* C10: with no webhook URL, a handleSave of EmployeeInputView on a valid
\* form, with the redirect to the settings declined, starts the save
C10_EmployeeSavesWithoutUrl ==
    [][\A dims \in BoardInputStates :
          (/\ settings.googleSheetUrl = ""
           /\ dimsValid(dims)
           /\ EmployeeInputView_handleSaveWith(dims, FALSE))
          => Len(pending') = Len(pending) + 1]_vars

\* C11: when a save completes for a board id that the history already holds,
\* the one entry of that board carries the cart, the stats and the item count
\* of this second save, stays at the position of the entry it replaced, and
\* every other entry of the history is as it was
C11_SecondSaveReplacesInPlace ==
    lastCall.name = "handleSaveSuccess" =>
        LET prev == lastCall.before
            second == lastCall.entry
        IN  \A k \in DOMAIN prev :
                prev[k].boardId = second.boardId =>
                    /\ Len(history) = Len(prev)
                    /\ history[k].boardId = second.boardId
                    /\ history[k].cart = second.cart
                    /\ history[k].earnings = second.earnings
                    /\ history[k].yieldPercentage = second.yieldPercentage
                    /\ history[k].itemCount = second.itemCount
                    /\ \A j \in DOMAIN prev : j # k => history[j] = prev[j]
                    /\ \A j \in DOMAIN history :
                            history[j].boardId = second.boardId => j = k

\* a second save of a board, with another cart, has replaced the entry that
\* stood second of three
C11_ReplacedInTheMiddle ==
    /\ lastCall.name = "handleSaveSuccess"
    /\ Len(lastCall.before) = 3
    /\ lastCall.before[2].boardId = lastCall.entry.boardId
    /\ lastCall.before[2].cart # lastCall.entry.cart
    /\ history[2].cart = lastCall.entry.cart
    /\ history[1] = lastCall.before[1]
    /\ history[3] = lastCall.before[3]

RECURSIVE PricedQuantities(_, _)
PricedQuantities(products, items) ==
    IF products = {} THEN 0
    ELSE LET p == CHOOSE q \in products : TRUE
             held == {i \in DOMAIN items : items[i].product = p}
             quantityOf == IF held = {} THEN 0
                           ELSE items[CHOOSE i \in held : TRUE].quantity
         IN  MOCK_PRODUCTS[p].price * quantityOf
                + PricedQuantities(products \ {p}, items)

\* the number of pieces a cart holds
RECURSIVE Pieces(_)
Pieces(items) ==
    IF items = <<>> THEN 0 ELSE Head(items).quantity + Pieces(Tail(items))

\* C13: confirming an edit with a non-empty edited cart starts one collaborator
\* call, updateSheetEntry for the entry's board id; when it succeeds exactly
\* the entry with the edited entry's id is replaced, by one with earnings the
\* sum of price times quantity, the yield of the edited cart on the board
\* whose dimensions the entry records, the item count the sum of the
\* quantities and the edited cart; every other entry is unchanged
C13_EditRecomputesOneEntry ==
    /\ (lastCall.name = "handleSaveEdit" /\ Len(lastCall.entry.cart) > 0) =>
            /\ Len(pendingEdits) = Len(lastCall.inFlight) + 1
            /\ pendingEdits[Len(pendingEdits)].request =
                    [fn |-> "updateSheetEntry",
                     boardId |-> lastCall.entry.boardId]
    /\ (/\ lastCall.name = "handleSaveEditDone"
        /\ Len(lastCall.entry.cart) > 0
        /\ lastCall.success) =>
            /\ lastCall.request.fn = "updateSheetEntry"
            /\ Len(history) = Len(lastCall.before)
            /\ \A k \in DOMAIN lastCall.before :
                    IF lastCall.before[k].id = lastCall.entry.id
                    THEN LET edited == lastCall.entry.cart
                             recorded == newBoard(validDims,
                                                  lastCall.entry.boardId)
                         IN  /\ history[k].id = lastCall.entry.id
                             /\ history[k].boardId = lastCall.entry.boardId
                             /\ history[k].cart = edited
                             /\ history[k].earnings =
                                    PricedQuantities(ProductIds, edited)
                             /\ history[k].itemCount = Pieces(edited)
                             /\ history[k].yieldPercentage =
                                    calculateStats(recorded, edited)
                                        .yieldPercentage
                    ELSE history[k] = lastCall.before[k]

\* an update has succeeded for the first entry after one of its two products
\* was edited: the entry carries the new figures and the second entry is as
\* it was
C13_EntryRecomputed ==
    /\ lastCall.name = "handleSaveEditDone"
    /\ lastCall.request.fn = "updateSheetEntry"
    /\ lastCall.success
    /\ Len(history) = 2
    /\ lastCall.before[1].id = lastCall.entry.id
    /\ lastCall.before[1].cart # lastCall.entry.cart
    /\ history[1].cart = lastCall.entry.cart
    /\ history[1].earnings # lastCall.before[1].earnings
    /\ history[1].yieldPercentage # lastCall.before[1].yieldPercentage
    /\ history[2] = lastCall.before[2]

\* C14: when the collaborator call of an edit confirmation fails (it returns
\* false or throws), the local history is exactly as it was, the edit session
\* is as it was (still open on its edited cart when the modal was open) and
\* an alert is shown
C14_FailedEditChangesNothing ==
    (lastCall.name = "handleSaveEditDone" /\ ~lastCall.success) =>
        /\ history = lastCall.before
        /\ editingEntry = lastCall.session
        /\ lastCall.alert # "none"

\* with the sheet URL set, a call has failed for an entry whose cart was
\* edited: the modal is still open on the edited cart and the history still
\* holds the cart as saved
C14_SessionKeptAfterFailure ==
    /\ lastCall.name = "handleSaveEditDone"
    /\ ~lastCall.success
    /\ lastCall.url # ""
    /\ editingEntry # NULL
    /\ editingEntry.id = lastCall.entry.id
    /\ editingEntry.cart = lastCall.entry.cart
    /\ \E k \in DOMAIN history :
            /\ history[k].id = lastCall.entry.id
            /\ history[k].cart # lastCall.entry.cart

\* the cart s with its k-th line taken out
WithoutLine(s, k) == SubSeq(s, 1, k - 1) \o SubSeq(s, k + 1, Len(s))

\* C15: starting from an empty cart, after any sequence of applyDelta,
\* removeItem and clear the cart holds at most one line per product id
C15_OneLinePerProduct ==
    \A i \in DOMAIN cart, j \in DOMAIN cart :
        cart[i].product = cart[j].product => i = j

\* a plus for a product that the cart of two lines already held was merged
\* into its line
C15_PlusMergedIntoLine ==
    /\ lastCall.name = "applyDelta"
    /\ lastCall.delta > 0
    /\ Len(lastCall.before) = 2
    /\ InCart(lastCall.before, lastCall.product)
    /\ Len(cart) = 2
    /\ \E k \in DOMAIN cart :
            /\ cart[k].product = lastCall.product
            /\ cart[k].quantity = lastCall.before[k].quantity + lastCall.delta

\* C16: every stored quantity is a positive integer; applyDelta on a product
\* that is present, for any integer delta, replaces its quantity by quantity
\* + delta when that is above zero and takes its line out when it is not,
\* and leaves the other lines as they were
C16_QuantitiesStayPositive ==
    /\ \A i \in DOMAIN cart : cart[i].quantity \in Nat \ {0}
    /\ lastCall.name = "applyDelta" =>
        \A k \in DOMAIN lastCall.before :
            lastCall.before[k].product = lastCall.product =>
                LET sum == lastCall.before[k].quantity + lastCall.delta
                IN  IF sum > 0
                    THEN cart = [lastCall.before EXCEPT ![k] =
                                    [product |-> lastCall.product,
                                     quantity |-> sum]]
                    ELSE cart = WithoutLine(lastCall.before, k)

\* a delta that takes a quantity below zero has removed the line and left
\* the other line in the cart
C16_LineRemovedBelowZero ==
    /\ lastCall.name = "applyDelta"
    /\ InCart(lastCall.before, lastCall.product)
    /\ getQuantity(lastCall.before, lastCall.product) + lastCall.delta < 0
    /\ Len(lastCall.before) = 2
    /\ Len(cart) = 1
    /\ ~InCart(cart, lastCall.product)

\* C17: applyDelta for a product that is absent, with any delta above zero,
\* appends a line of quantity exactly 1 whatever the size of delta, and
\* leaves the lines that were there and their order as they were
C17_AbsentProductAppendedOnce ==
    (/\ lastCall.name = "applyDelta"
     /\ ~InCart(lastCall.before, lastCall.product)
     /\ lastCall.delta > 0) =>
        cart = lastCall.before \o
                    <<[product |-> lastCall.product, quantity |-> 1]>>

\* a delta of more than 1 for an absent product has added a line of
\* quantity 1 after the line that was there
C17_LargeDeltaAddedOne ==
    /\ lastCall.name = "applyDelta"
    /\ lastCall.delta > 1
    /\ Len(lastCall.before) = 1
    /\ ~InCart(lastCall.before, lastCall.product)
    /\ Len(cart) = 2
    /\ cart[1] = lastCall.before[1]
    /\ cart[2] = [product |-> lastCall.product, quantity |-> 1]

\* C18: applyDelta for a product that is absent, with a delta of zero or
\* below, returns the cart unchanged
C18_AbsentProductNotAdded ==
    (/\ lastCall.name = "applyDelta"
     /\ ~InCart(lastCall.before, lastCall.product)
     /\ lastCall.delta <= 0) =>
        cart = lastCall.before

\* applyDelta([], product, -1) has returned []
C18_MinusOnEmptyCart ==
    /\ lastCall.name = "applyDelta"
    /\ lastCall.delta = -1
    /\ lastCall.before = <<>>
    /\ cart = <<>>

\* C19: for every cart and every product absent from it, a +1 followed by a
\* -1 for that product gives the cart back: same lines, quantities and order
C19_PlusThenMinusRestores ==
    \A p \in ProductIds :
        ~InCart(cart, p) =>
            applyDelta(applyDelta(cart, p, 1), p, -1) = cart

\* a -1 has taken out the line that a +1 adds to the cart of one line that
\* is left
C19_MinusUndidPlus ==
    /\ lastCall.name = "applyDelta"
    /\ lastCall.delta = -1
    /\ Len(cart) = 1
    /\ ~InCart(cart, lastCall.product)
    /\ lastCall.before = applyDelta(cart, lastCall.product, 1)

\* C20: for every board, and for no board, and every cart, calculateStats
\* returns as earnings the sum of price times quantity over the cart, the
\* same whatever the board
C20_EarningsArePricedQuantities ==
    /\ lastCall.name = "calculateStats" =>
            lastCall.result.earnings = PricedQuantities(ProductIds, cart)
    /\ \A b \in StatsBoards :
            calculateStats(b, cart).earnings =
                calculateStats(NULL, cart).earnings

\* calculateStats was called without a board on a cart of two products with
\* several pieces each
C20_EarningsWithoutBoard ==
    /\ lastCall.name = "calculateStats"
    /\ lastCall.board = NULL
    /\ Len(cart) = 2
    /\ cart[1].quantity = 2
    /\ cart[2].quantity = 3
    /\ lastCall.result.earnings =
            2 * MOCK_PRODUCTS[cart[1].product].price
                + 3 * MOCK_PRODUCTS[cart[2].product].price

\* the volume in mm3 of the pieces of a cart, product by product
RECURSIVE PiecesVolume(_, _)
PiecesVolume(products, items) ==
    IF products = {} THEN 0
    ELSE LET p == CHOOSE q \in products : TRUE
             held == {i \in DOMAIN items : items[i].product = p}
             quantityOf == IF held = {} THEN 0
                           ELSE items[CHOOSE i \in held : TRUE].quantity
             d == MOCK_PRODUCTS[p].dimensions
         IN  d.length * d.width * d.thickness * quantityOf
                + PiecesVolume(products \ {p}, items)

\* 100 * p / b rounded to the nearest integer, a half rounded up
RoundHalfUpPercent(p, b) ==
    PercentDigits(p, b).floor
        + (IF 2 * PercentDigits(p, b).rest >= b THEN 1 ELSE 0)

\* C21: calculateStats returns as yieldPercentage 100 times the volume of the
\* pieces over the volume of the board, rounded half up and not clamped, when
\* the board has a volume above 0, and 0 otherwise
C21_YieldIsRoundedHalfUp ==
    lastCall.name = "calculateStats" =>
        LET b == lastCall.board
            boardVolume == IF b = NULL THEN 0
                           ELSE b.length * b.width * b.thickness
        IN  lastCall.result.yieldPercentage =
                IF boardVolume > 0
                THEN RoundHalfUpPercent(PiecesVolume(ProductIds, cart),
                                        boardVolume)
                ELSE 0

\* C22: calculateStats is total on the empty cases. For an empty cart it
\* returns earnings 0 and yield 0 whatever the board, and for no board at all
\* also a board volume and a products volume of 0; analyzeYield returns these
\* stats for an empty cart instead of failing
C22_EmptyCasesReturnZeros ==
    (lastCall.name \in {"calculateStats", "analyzeYield"} /\ cart = <<>>) =>
        /\ lastCall.name = "analyzeYield" => ~lastCall.threw
        /\ lastCall.result # NULL
        /\ lastCall.result.earnings = 0
        /\ lastCall.result.yieldPercentage = 0
        /\ lastCall.result.productsVolumeM3 = M3(0)
        /\ lastCall.board = NULL => lastCall.result.boardVolumeM3 = M3(0)

\* analyzeYield has answered for an empty cart and no board, AI enabled
C22_ReviewOfNothing ==
    /\ lastCall.name = "analyzeYield"
    /\ lastCall.board = NULL
    /\ lastCall.isAiEnabled
    /\ cart = <<>>
    /\ lastCall.result.boardVolumeM3 = M3(0)

\* C23: the 'next board' action runs only on a saved shift (the flag isSaved
\* of the analysis screen is set and the history holds the entry of the
\* board), and it leaves no board, an empty cart, no AnalysisResult, the
\* board input screen and the history as it was
C23_NextBoardOnlyAfterSave ==
    lastCall.name = "handleReset" =>
        /\ lastCall.before.isSaved
        /\ HasEntry(lastCall.before.board.id)
        /\ board = NULL
        /\ cart = <<>>
        /\ analysisResult = NULL
        /\ step = "input"
        /\ history = lastCall.before.history

\* 'next board' was pressed on a saved shift with pieces in the cart
C23_NextBoardPressed ==
    /\ lastCall.name = "handleReset"
    /\ lastCall.before.isSaved
    /\ lastCall.before.cart # <<>>
    /\ Len(history) = 1
    /\ step = "input"

\* C24: every review, save and edit-confirm attempt ends: the in-flight flag
\* it set (isAnalyzing, isSaving, isUpdating) is cleared again and its call
\* is no longer in flight, whether the awaited call gave true, gave false or
\* threw; a handler that caught an exception has alerted the user
C24_AttemptsEnd ==
    /\ isAnalyzing ~> ~isAnalyzing
    /\ isSaving ~> ~isSaving
    /\ empIsSaving ~> ~empIsSaving
    /\ isUpdating ~> ~isUpdating
    /\ (reviewing # NULL) ~> (reviewing = NULL)
    /\ (pending # <<>>) ~> (pending = <<>>)
    /\ (pendingEdits # <<>>) ~> (pendingEdits = <<>>)
    /\ [](lastCall.name = "settled" =>
            /\ lastCall.outcome = "threw" => lastCall.alerted
            /\ lastCall.handler = "handleReview" => ~isAnalyzing)

\* a save of the analysis screen has ended in the catch block, with the flag
\* cleared and nothing recorded
C24_SaveThrewAndEnded ==
    /\ lastCall.name = "settled"
    /\ lastCall.handler = "handleSave"
    /\ lastCall.outcome = "threw"
    /\ step = "analysis"
    /\ ~isSaving
    /\ ~isSaved
    /\ pending = <<>>

\* the screens of the owner
OwnerSteps == {"ownerMain", "references", "dashboards"}

\* C25: the step is one of the owner screens only while the logged-in user
\* has the owner role, from every start of the application and after every
\* sequence of login, logout and navigation
C25_OwnerScreensForOwnerOnly ==
    step \in OwnerSteps => user = "Owner"

\* an owner who logged in from the login screen is on the dashboards
C25_OwnerOnDashboards ==
    /\ step = "dashboards"
    /\ user = "Owner"
    /\ settings.googleSheetUrl # ""

\* C26: whenever the step is 'analysis' the board and the AnalysisResult are
\* there, and whenever the step is 'grid' the board is there, so that the
\* screen of the step renders
C26_StepHasItsData ==
    /\ step = "analysis" => (board # NULL /\ analysisResult # NULL)
    /\ step = "grid" => board # NULL

\* C27: every HistoryEntry of the local history agrees with its own cart
\* snapshot: its earnings are the sum of price times quantity and its
\* itemCount the sum of the quantities over entry.cart
C27_EntriesMatchTheirCart ==
    \A k \in DOMAIN history :
        /\ history[k].earnings = PricedQuantities(ProductIds, history[k].cart)
        /\ history[k].itemCount = Pieces(history[k].cart)

\* C28: in the employee flow the cart that a completed save clears is the
\* cart that was saved: every line of the cart at the completion of the save
\* is part of the saved HistoryEntry, so that no product added while the save
\* was in flight is dropped with the clearing
C28_ClearedCartWasSaved ==
    lastCall.name = "EmployeeInputView.handleSave" =>
        \A p \in ProductIds :
            getQuantity(lastCall.cartBefore, p) > getQuantity(lastCall.saved, p)
                => getQuantity(cart, p) > 0

\* C29: whenever handleBoardSubmit confirms a new board, the shift it starts
\* has an empty cart and no AnalysisResult left from the shift before
C29_NewBoardStartsClean ==
    lastCall.name = "handleBoardSubmit" =>
        /\ cart = <<>>
        /\ analysisResult = NULL

\* C30: the HistoryEntry that a save stores records the saved board: its
\* boardId is the id of the board sent to the collaborator and its boardVolume
\* the volume length x width x thickness of that board
C30_EntryRecordsSavedBoard ==
    lastCall.name = "EmployeeInputView.handleSave" =>
        \E k \in DOMAIN history :
            /\ history[k].boardId = lastCall.board.id
            /\ history[k].boardVolume =
                    M3(lastCall.board.length * lastCall.board.width
                            * lastCall.board.thickness)

=============================================================================
